---- MODULE Spec2Model ----
(***************************************************************************)
(* Model of the roman numeral converter (src/main.go).                     *)
(*                                                                         *)
(* A Go string is a sequence of one-character strings, so that indexing,   *)
(* slicing, concatenation and len() are the operations of Sequences.  A Go *)
(* map is a function; the order in which `range` visits its keys is not    *)
(* specified by the language, so every loop over a map takes the order as  *)
(* an extra argument that the actions choose nondeterministically.         *)
(***************************************************************************)
EXTENDS Integers, Sequences, FiniteSets, TLC

VARIABLES
    addF,        \* flag -a
    simpleOutF,  \* flag -sim
    rangeF,      \* flag -r
    startF,      \* flag -s
    endF,        \* flag -e
    arg,         \* flag.Arg(0)
    pc,          \* the function the program is in, or "done" / "fatal"
    caller,      \* who called the converter: "main", "genRange" or "conv"
    val,         \* main: the upper-cased argument
    theNumType,  \* main: the classifier's answer
    convVal,     \* main: the parsed and validated arabic value
    a2r,         \* arabicToRoman: [val, current, outStr]
    r2a,         \* romanToArabic: [str, i, val]
    gen,         \* genRange: [i, outVals]
    out,         \* the lines handed to fmt.Println or writeToFile
    err          \* "nil", or why log.Fatalf ended the program

vars == <<addF, simpleOutF, rangeF, startF, endF, arg, pc, caller, val,
          theNumType, convVal, a2r, r2a, gen, out, err>>

flags == <<addF, simpleOutF, rangeF, startF, endF, arg>>

\* ------------------------------------------------------------------ bounds

\* longest roman argument given on the command line
MaxRomanLen == 4
\* longest arabic (digit) argument given on the command line
MaxDigitLen == 4
\* longest roman argument over LongRomanChars
MaxLongLen == 5
\* longest argument that is neither (mixed characters)
MaxMixedLen == 3
\* longest string handed to the classifier on its own
MaxClassLen == 4
\* the range flags: -e is drawn from (-s - 1) .. (-s + MaxSpan)
MaxSpan == 2
\* the converter on its own: integers from (1 - Slack) .. (MaxArabic + Slack)
Slack == 3

\* ------------------------------------------------------- program constants

\* isValArabic: "number must be less than 4000"
MaxArabic == 4000
\* isValArabic: the least valid number
MinArabic == 1
\* uint16(n) in findLargest keeps n modulo 2^16
Uint16Mod == 65536

\* NumType
Arabic == "Arabic"
Roman == "Roman"
UnDef == "UnDef"

aTorMap ==
    (1000 :> <<"M">>) @@ (900 :> <<"C", "M">>) @@ (500 :> <<"D">>) @@
    (400 :> <<"C", "D">>) @@ (100 :> <<"C">>) @@ (90 :> <<"X", "C">>) @@
    (50 :> <<"L">>) @@ (40 :> <<"X", "L">>) @@ (10 :> <<"X">>) @@
    (9 :> <<"I", "X">>) @@ (5 :> <<"V">>) @@ (4 :> <<"I", "V">>) @@
    (1 :> <<"I">>)

rToaMap ==
    (<<"M">> :> 1000) @@ (<<"C", "M">> :> 900) @@ (<<"D">> :> 500) @@
    (<<"C", "D">> :> 400) @@ (<<"C">> :> 100) @@ (<<"X", "C">> :> 90) @@
    (<<"L">> :> 50) @@ (<<"X", "L">> :> 40) @@ (<<"X">> :> 10) @@
    (<<"I", "X">> :> 9) @@ (<<"V">> :> 5) @@ (<<"I", "V">> :> 4) @@
    (<<"I">> :> 1)

\* Orders in which `range` may visit the keys of a map built from aTorMap
\* (keys absent from the map at hand are skipped).
MapOrders ==
    { <<1000, 900, 500, 400, 100, 90, 50, 40, 10, 9, 5, 4, 1>>,
      <<1, 4, 5, 9, 10, 40, 50, 90, 100, 400, 500, 900, 1000>>,
      <<10, 1000, 4, 90, 1, 500, 40, 9, 900, 5, 100, 400, 50>>,
      <<400, 5, 50, 1, 900, 9, 1000, 40, 100, 4, 500, 10, 90>> }

\* ------------------------------------------------------------ characters

Digits == {"0", "1", "2", "3", "4", "5", "6", "7", "8", "9"}
NonZeroDigits == Digits \ {"0"}
RomanChars == {"I", "V", "X", "L", "C", "D", "M"}

DigitVal(c) ==
    CASE c = "0" -> 0 [] c = "1" -> 1 [] c = "2" -> 2 [] c = "3" -> 3
      [] c = "4" -> 4 [] c = "5" -> 5 [] c = "6" -> 6 [] c = "7" -> 7
      [] c = "8" -> 8 [] c = "9" -> 9

DigitChar(d) ==
    CASE d = 0 -> "0" [] d = 1 -> "1" [] d = 2 -> "2" [] d = 3 -> "3"
      [] d = 4 -> "4" [] d = 5 -> "5" [] d = 6 -> "6" [] d = 7 -> "7"
      [] d = 8 -> "8" [] d = 9 -> "9"

\* strings.ToUpper, on the characters the arguments are drawn from
UpperChar(c) ==
    CASE c = "i" -> "I" [] c = "v" -> "V" [] c = "a" -> "A" [] OTHER -> c

ToUpper(s) == [k \in 1..Len(s) |-> UpperChar(s[k])]

\* every string over alphabet `chars` of length lo..hi
Strings(chars, lo, hi) == UNION {[1..n -> chars] : n \in lo..hi}

\* ------------------------------------------------------------ classifier

\* One step of the automaton of `^[1-9]\d*$`: "start" before the first
\* character, "digits" (accepting) after [1-9] and any number of \d.
arabicPatternLeadingZero(q, c) ==
    CASE q = "start" /\ c \in Digits -> "digits"
      [] q = "digits" /\ c \in Digits -> "digits"
      [] OTHER -> "fail"

arabicPattern(q, c) ==
    CASE q = "start" /\ c \in NonZeroDigits -> "digits"
      [] q = "digits" /\ c \in Digits -> "digits"
      [] OTHER -> "fail"

\* One step of the automaton of `^[IVXLCDM]+$`: "symbols" is accepting.
romanPattern(q, c) ==
    CASE q \in {"start", "symbols"} /\ c \in RomanChars -> "symbols"
      [] OTHER -> "fail"

RECURSIVE arabicRun(_, _)
arabicRun(q, s) ==
    IF s = <<>> THEN q ELSE arabicRun(arabicPattern(q, Head(s)), Tail(s))

RECURSIVE romanRun(_, _)
romanRun(q, s) ==
    IF s = <<>> THEN q ELSE romanRun(romanPattern(q, Head(s)), Tail(s))

\* regexp.MatchString: both patterns are anchored at both ends
arabicMatchString(s) == arabicRun("start", s) = "digits"
romanMatchString(s) == romanRun("start", s) = "symbols"

whichNumeralType(s) ==
    IF arabicMatchString(s) THEN Arabic
    ELSE IF romanMatchString(s) THEN Roman
    ELSE UnDef

\* ------------------------------------------------------------- validator

\* nil, or the error isValArabic returns
isValArabicOffByOne(num) ==
    IF num >= MaxArabic THEN "greater than 4000"
    ELSE IF num < MinArabic THEN "less than 1"
    ELSE "nil"

isValArabic(num) ==
    IF num > MaxArabic THEN "greater than 4000"
    ELSE IF num < MinArabic THEN "less than 1"
    ELSE "nil"

\* strconv.ParseInt(str, 10, 64): an optional sign, then digits only.  The
\* arguments are far shorter than 19 digits, so the int64 range error of
\* ParseInt cannot occur.
RECURSIVE ParseDigits(_, _)
ParseDigits(acc, s) ==
    IF s = <<>> THEN acc ELSE ParseDigits(acc * 10 + DigitVal(Head(s)), Tail(s))

ParseInt(s) ==
    LET signed == s # <<>> /\ Head(s) \in {"+", "-"}
        body == IF signed THEN Tail(s) ELSE s
    IN  IF body = <<>> \/ \E k \in 1..Len(body) : body[k] \notin Digits
        THEN [err |-> "syntax", v |-> 0]
        ELSE [err |-> "nil",
              v |-> IF signed /\ Head(s) = "-"
                    THEN 0 - ParseDigits(0, body) ELSE ParseDigits(0, body)]

\* makeInt64: the value, or the reason log.Fatalf ends the program
makeInt64(s) ==
    LET p == ParseInt(s)
    IN  IF p.err # "nil" THEN [err |-> "cannot be converted to an int", v |-> 0]
        ELSE IF isValArabic(p.v) # "nil" THEN [err |-> isValArabic(p.v), v |-> p.v]
        ELSE [err |-> "nil", v |-> p.v]

\* ------------------------------------------------------- arabic -> roman

\* the conversion of an int64 to uint16 keeps the low 16 bits
uint16(n) == n % Uint16Mod

makeAddMapKeepAll(inmap) == inmap

makeAddMap(inmap) ==
    [k \in {x \in DOMAIN inmap : Len(inmap[x]) = 1} |-> inmap[k]]

\* the body of findLargest's loop over the keys ks still to be visited
RECURSIVE findLargestFrom(_, _, _, _, _)
findLargestFrom(n, m, ks, lAr, lRm) ==
    IF ks = <<>> THEN <<lAr, lRm>>
    ELSE LET k == Head(ks)
         IN  IF k \in DOMAIN m /\ uint16(n) >= k /\ k > lAr
             THEN findLargestFrom(n, m, Tail(ks), k, m[k])
             ELSE findLargestFrom(n, m, Tail(ks), lAr, lRm)

\* the same loop without the `k > lAr` test: the last applicable key wins
RECURSIVE findLastFrom(_, _, _, _, _)
findLastFrom(n, m, ks, lAr, lRm) ==
    IF ks = <<>> THEN <<lAr, lRm>>
    ELSE LET k == Head(ks)
         IN  IF k \in DOMAIN m /\ uint16(n) >= k
             THEN findLastFrom(n, m, Tail(ks), k, m[k])
             ELSE findLastFrom(n, m, Tail(ks), lAr, lRm)

findLargestLastWins(n, m, ord) == findLastFrom(n, m, ord, 0, <<>>)

\* findLargest(n, m), with the keys of m visited in the order ord
findLargest(n, m, ord) == findLargestFrom(n, m, ord, 0, <<>>)

\* the table arabicToRoman searches
useMap == IF addF THEN makeAddMap(aTorMap) ELSE aTorMap

\* one iteration of arabicToRoman's loop on its locals s
arabicToRomanStep(s, ord) ==
    LET f == findLargest(s.current, useMap, ord)
    IN  [s EXCEPT !.outStr = @ \o f[2], !.current = @ - f[1]]

\* ------------------------------------------------------- roman -> arabic

\* romanToArabic's locals at entry
romanToArabicEntry(str) == [str |-> str, i |-> 0, val |-> 0]

\* the key romanToArabic matches at position r.i (Go indexes from 0): the
\* two-character sequence if the map has it, else the character, else none
romanToArabicChunkSingle(r) ==
    LET c == <<r.str[r.i + 1]>>
    IN  IF c \in DOMAIN rToaMap THEN c ELSE <<>>

romanToArabicChunk(r) ==
    LET c == <<r.str[r.i + 1]>>
        xc == IF r.i + 1 < Len(r.str) THEN <<r.str[r.i + 1], r.str[r.i + 2]>> ELSE <<>>
    IN  IF xc \in DOMAIN rToaMap THEN xc
        ELSE IF c \in DOMAIN rToaMap THEN c
        ELSE <<>>

\* the same iteration advancing one position whatever it matched
romanToArabicStepAdvanceOne(r, chunk) ==
    [r EXCEPT !.val = @ + rToaMap[chunk], !.i = @ + 1]

\* one iteration of romanToArabic's loop that matched chunk
romanToArabicStep(r, chunk) ==
    [r EXCEPT !.val = @ + rToaMap[chunk], !.i = @ + Len(chunk)]

\* ------------------------------------------------------------- formatter

\* fmt's %d
RECURSIVE FmtNat(_)
FmtNat(n) ==
    IF n < 10 THEN <<DigitChar(n)>> ELSE FmtNat(n \div 10) \o <<DigitChar(n % 10)>>

FmtInt(n) == IF n < 0 THEN <<"-">> \o FmtNat(0 - n) ELSE FmtNat(n)

formatValue(arVal, romVal, outType) ==
    CASE outType = Roman ->
            IF simpleOutF THEN romVal
            ELSE FmtInt(arVal) \o <<" ", "=", " ">> \o romVal
                 \o (IF addF THEN <<"\t", " ", "(", "a", "d", "d", ")">> ELSE <<>>)
      [] outType = Arabic ->
            IF simpleOutF THEN FmtInt(arVal)
            ELSE romVal \o <<" ", "=", " ">> \o FmtInt(arVal)
      [] OTHER -> <<"N", "A">>

\* ----------------------------------------------------------------- inputs

\* the digits arabic arguments are written with
ArgDigits == {"0", "1", "4", "9"}
\* the characters of arguments that are neither arabic nor roman
MixedChars == {"1", "I", "i", "v", "a"}

\* values of the flag -s
StartVals == {-1, 0, 1, 2, 100, 3999, 4000, 4001, 65535, 65536}

\* the characters of the strings classified on their own
ClassChars == {"0", "1", "9", "I", "V", "M", "i", "a"}

NoA2R == [val |-> 0, current |-> 0, outStr |-> <<>>]
NoR2A == [str |-> <<>>, i |-> 0, val |-> 0]
NoGen == [i |-> 0, outVals |-> <<>>]

\* roman arguments longer than MaxRomanLen are drawn from these symbols
LongRomanChars == {"M", "C", "I"}

ArgStrings ==
    Strings(RomanChars, 1, MaxRomanLen) \cup Strings(LongRomanChars, 1, MaxLongLen)
        \cup Strings(ArgDigits, 1, MaxDigitLen) \cup Strings(MixedChars, 0, MaxMixedLen)

\* the spec's sample inputs of the classifier
ClassExamples ==
    { <<"1", "9", "6", "5">>, <<"M", "C", "M", "L", "X", "V">>,
      <<"a", "b", "c", "1", "2", "3">>, <<"i", "v">>, <<>> }

\* no function has been entered yet
Locals ==
    /\ val = <<>>
    /\ theNumType = UnDef
    /\ a2r = NoA2R
    /\ r2a = NoR2A
    /\ gen = NoGen
    /\ out = <<>>
    /\ err = "nil"

DefaultRange ==
    /\ rangeF = FALSE
    /\ startF = 1
    /\ endF = 1

\* the program started on one argument, or in range mode
Init ==
    /\ pc = "main"
    /\ caller = "main"
    /\ convVal = 0
    /\ addF \in BOOLEAN
    /\ simpleOutF \in BOOLEAN
    /\ \/ /\ DefaultRange
          /\ arg \in ArgStrings
       \/ /\ rangeF = TRUE
          /\ startF \in StartVals
          /\ endF \in (startF - 1)..(startF + MaxSpan)
          /\ arg = <<>>
    /\ Locals

\* the converter on its own: an integer is validated (as makeInt64 does after
\* parsing), encoded, and the result decoded
InitConv ==
    /\ pc = "isValArabic"
    /\ caller = "conv"
    /\ convVal \in (MinArabic - Slack)..(MaxArabic + Slack)
    /\ addF \in BOOLEAN
    /\ simpleOutF = FALSE
    /\ DefaultRange
    /\ arg = <<>>
    /\ Locals

\* the classifier on its own
InitClassify ==
    /\ pc = "whichNumeralType"
    /\ caller = "classify"
    /\ convVal = 0
    /\ addF = FALSE
    /\ simpleOutF = FALSE
    /\ DefaultRange
    /\ arg \in Strings(ClassChars, 0, MaxClassLen) \cup ClassExamples
    /\ Locals

\* ---------------------------------------------------------------- actions

\* entering arabicToRoman(n) on behalf of who
CallArabicToRoman(n, who) ==
    /\ pc' = "arabicToRoman"
    /\ caller' = who
    /\ a2r' = [val |-> n, current |-> n, outStr |-> <<>>]

\* main, no argument and no range: the usage text
MainUsage ==
    /\ pc = "main"
    /\ ToUpper(arg) = <<>> /\ ~rangeF
    /\ val' = ToUpper(arg)
    /\ pc' = "done"
    /\ UNCHANGED <<flags, caller, theNumType, convVal, a2r, r2a, gen, out, err>>

\* main, range case: genRange starts
MainRange ==
    /\ pc = "main"
    /\ rangeF
    /\ val' = ToUpper(arg)
    /\ pc' = "genRange"
    /\ gen' = [i |-> startF, outVals |-> <<>>]
    /\ UNCHANGED <<flags, caller, theNumType, convVal, a2r, r2a, out, err>>

\* main, single value: classify, and parse and validate an arabic value
MainSingle ==
    /\ pc = "main"
    /\ ~rangeF /\ ToUpper(arg) # <<>>
    /\ val' = ToUpper(arg)
    /\ theNumType' = whichNumeralType(val')
    /\ CASE theNumType' = Arabic ->
                LET c == makeInt64(val')
                IN  IF c.err # "nil"
                    THEN /\ pc' = "fatal"
                         /\ err' = c.err
                         /\ UNCHANGED <<caller, convVal, a2r, r2a>>
                    ELSE /\ convVal' = c.v
                         /\ CallArabicToRoman(c.v, "main")
                         /\ UNCHANGED <<r2a, err>>
         [] theNumType' = Roman ->
                /\ pc' = "romanToArabic"
                /\ r2a' = romanToArabicEntry(val')
                /\ UNCHANGED <<caller, convVal, a2r, err>>
         [] OTHER ->
                /\ pc' = "fatal"
                /\ err' = "neither roman or arabic"
                /\ UNCHANGED <<caller, convVal, a2r, r2a>>
    /\ UNCHANGED <<flags, gen, out>>

\* genRange's loop test: convert the next value, or return and emit the lines
GenRangeLoop ==
    /\ pc = "genRange"
    /\ IF gen.i <= endF
       THEN /\ CallArabicToRoman(gen.i, "genRange")
            /\ UNCHANGED out
       ELSE /\ out' = gen.outVals
            /\ pc' = "done"
            /\ UNCHANGED <<caller, a2r>>
    /\ UNCHANGED <<flags, val, theNumType, convVal, r2a, gen, err>>

\* arabicToRoman: one iteration of `for current > 0`.  current is an int64 and
\* the key subtracted is at most 1000, so the subtraction does not wrap.  When
\* findLargest returns the zero key the iteration leaves every local as it
\* was: the loop spins in place.
A2RLoop ==
    /\ pc = "arabicToRoman"
    /\ a2r.current > 0
    /\ \E ord \in MapOrders : a2r' = arabicToRomanStep(a2r, ord)
    /\ UNCHANGED <<flags, pc, caller, val, theNumType, convVal, r2a, gen, out, err>>

\* arabicToRoman returns into genRange: format, append, i++ (the values of -s
\* and -e are far from the ends of Go's int, so i++ does not wrap)
GenRangeAppend ==
    /\ pc = "arabicToRoman" /\ caller = "genRange"
    /\ a2r.current <= 0
    /\ gen' = [i |-> gen.i + 1,
               outVals |-> Append(gen.outVals, formatValue(gen.i, a2r.outStr, Roman))]
    /\ pc' = "genRange"
    /\ UNCHANGED <<flags, caller, val, theNumType, convVal, a2r, r2a, out, err>>

\* arabicToRoman returns into main: format and emit
MainEmitRoman ==
    /\ pc = "arabicToRoman" /\ caller = "main"
    /\ a2r.current <= 0
    /\ out' = <<formatValue(convVal, a2r.outStr, Roman)>>
    /\ pc' = "done"
    /\ UNCHANGED <<flags, caller, val, theNumType, convVal, a2r, r2a, gen, err>>

\* romanToArabic: one iteration of `for i < len(str)`
R2ALoop ==
    /\ pc = "romanToArabic"
    /\ r2a.i < Len(r2a.str)
    /\ LET chunk == romanToArabicChunk(r2a)
       IN  IF chunk = <<>>
           THEN /\ pc' = "fatal"
                /\ err' = "invalid character"
                /\ UNCHANGED r2a
           ELSE /\ r2a' = romanToArabicStep(r2a, chunk)
                /\ UNCHANGED <<pc, err>>
    /\ UNCHANGED <<flags, caller, val, theNumType, convVal, a2r, gen, out>>

\* romanToArabic returns into main: format and emit
MainEmitArabic ==
    /\ pc = "romanToArabic" /\ caller = "main"
    /\ r2a.i >= Len(r2a.str)
    /\ out' = <<formatValue(r2a.val, val, Arabic)>>
    /\ pc' = "done"
    /\ UNCHANGED <<flags, caller, val, theNumType, convVal, a2r, r2a, gen, err>>

\* the validator applied to an integer, as makeInt64 applies it
ConvValidate ==
    /\ pc = "isValArabic"
    /\ IF isValArabic(convVal) # "nil"
       THEN /\ pc' = "fatal"
            /\ err' = isValArabic(convVal)
            /\ UNCHANGED <<caller, a2r>>
       ELSE /\ CallArabicToRoman(convVal, "conv")
            /\ UNCHANGED err
    /\ UNCHANGED <<flags, val, theNumType, convVal, r2a, gen, out>>

\* arabicToRoman returns; its result is handed to romanToArabic
ConvEncoded ==
    /\ pc = "arabicToRoman" /\ caller = "conv"
    /\ a2r.current <= 0
    /\ pc' = "romanToArabic"
    /\ r2a' = romanToArabicEntry(a2r.outStr)
    /\ UNCHANGED <<flags, caller, val, theNumType, convVal, a2r, gen, out, err>>

\* romanToArabic returns
ConvDecoded ==
    /\ pc = "romanToArabic" /\ caller = "conv"
    /\ r2a.i >= Len(r2a.str)
    /\ pc' = "done"
    /\ UNCHANGED <<flags, caller, val, theNumType, convVal, a2r, r2a, gen, out, err>>

\* the classifier applied to a string as given
Classify ==
    /\ pc = "whichNumeralType"
    /\ theNumType' = whichNumeralType(arg)
    /\ pc' = "done"
    /\ UNCHANGED <<flags, caller, val, convVal, a2r, r2a, gen, out, err>>

Next ==
    \/ MainUsage
    \/ MainRange
    \/ MainSingle
    \/ GenRangeLoop
    \/ A2RLoop
    \/ GenRangeAppend
    \/ MainEmitRoman
    \/ R2ALoop
    \/ MainEmitArabic

Spec == Init /\ [][Next]_vars

\* the program always runs its next instruction
FairSpec == Spec /\ WF_vars(Next)

NextConv == ConvValidate \/ A2RLoop \/ ConvEncoded \/ R2ALoop \/ ConvDecoded

SpecConv == InitConv /\ [][NextConv]_vars

NextClassify == Classify

SpecClassify == InitClassify /\ [][NextClassify]_vars


\* ----------------------------------------------------- reference notions

\* the subtractive pairs and the symbols' values, as the glossary gives them
SubtractivePairs ==
    { <<"I", "V">>, <<"I", "X">>, <<"X", "L">>, <<"X", "C">>, <<"C", "D">>, <<"C", "M">> }

SymbolValue(c) ==
    CASE c = "I" -> 1 [] c = "V" -> 5 [] c = "X" -> 10 [] c = "L" -> 50
      [] c = "C" -> 100 [] c = "D" -> 500 [] c = "M" -> 1000

\* the value of a string read left to right, a subtractive pair counting as
\* the larger symbol less the smaller, any other symbol as itself
RECURSIVE GreedyValue(_)
GreedyValue(s) ==
    IF s = <<>> THEN 0
    ELSE IF Len(s) >= 2 /\ <<s[1], s[2]>> \in SubtractivePairs
    THEN SymbolValue(s[2]) - SymbolValue(s[1]) + GreedyValue(SubSeq(s, 3, Len(s)))
    ELSE SymbolValue(s[1]) + GreedyValue(Tail(s))

\* the sum of the values of the first n symbols, each taken alone
RECURSIVE SingleSum(_, _)
SingleSum(s, n) == IF n = 0 THEN 0 ELSE SingleSum(s, n - 1) + SymbolValue(s[n])

\* the largest key of table m that is <= n
LargestKey(n, m) ==
    CHOOSE k \in DOMAIN m : k <= n /\ \A j \in DOMAIN m : j <= n => j <= k

InRange(n) == n >= 1 /\ n <= 4000

\* the integer the k-th line of genRange's result stands for
RangeElem(k) == startF + k - 1

\* s begins with p
StartsWith(s, p) == Len(s) >= Len(p) /\ SubSeq(s, 1, Len(p)) = p

\* ----------------------------------------------------------------- claims

\* C1: subtractive round trip: for every n in [1,4000] that was encoded with
\* additive mode off and decoded again, the decoded value is exactly n.
C1_SubtractiveRoundTrip ==
    (caller = "conv" /\ pc = "done" /\ ~addF) =>
        /\ InRange(convVal)
        /\ r2a.str = a2r.outStr
        /\ r2a.val = convVal

C1_Witness ==
    /\ caller = "conv" /\ pc = "done" /\ ~addF
    /\ convVal = 1994
    /\ r2a.str = <<"M", "C", "M", "X", "C", "I", "V">>
    /\ r2a.val = 1994

\* C2: additive round trip: for every n in [1,4000] encoded with additive mode
\* on, the decoder accepts the string, never decodes two adjacent symbols as a
\* subtractive pair (its running value is the sum of the symbols read so far,
\* each taken alone), and returns exactly n.
C2_AdditiveRoundTrip ==
    (caller = "conv" /\ addF) =>
        /\ err # "invalid character"
        /\ pc \in {"romanToArabic", "done"} =>
              /\ r2a.str = a2r.outStr
              /\ r2a.val = SingleSum(r2a.str, r2a.i)
        /\ pc = "done" => (InRange(convVal) /\ r2a.val = convVal)

C2_Witness ==
    /\ caller = "conv" /\ pc = "done" /\ addF
    /\ convVal = 1965
    /\ r2a.str = <<"M", "D", "C", "C", "C", "C", "L", "X", "V">>
    /\ r2a.val = 1965

C4_Classifier ==
    (caller = "classify" /\ pc = "done") =>
        LET arabic == /\ Len(arg) >= 1
                      /\ \A k \in 1..Len(arg) : arg[k] \in Digits
                      /\ arg[1] # "0"
            roman == /\ Len(arg) >= 1
                     /\ \A k \in 1..Len(arg) : arg[k] \in RomanChars
        IN  /\ theNumType \in {Arabic, Roman, UnDef}
            /\ (theNumType = Arabic) <=> arabic
            /\ (theNumType = Roman) <=> roman
            /\ (theNumType = UnDef) <=> (~arabic /\ ~roman)
            /\ ~(arabic /\ roman)
            /\ arg = <<"1", "9", "6", "5">> => theNumType = Arabic
            /\ arg = <<"M", "C", "M", "L", "X", "V">> => theNumType = Roman
            /\ arg \in {<<>>, <<"a", "b", "c", "1", "2", "3">>, <<"i", "v">>} =>
                  theNumType = UnDef

C4_Witness ==
    /\ caller = "classify" /\ pc = "done"
    /\ arg = <<"0", "1">>
    /\ theNumType = UnDef

\* C5: range mode ends having produced exactly one formatted result for every
\* integer of [start, end], in ascending order (none when start > end).
C5_RangeComplete ==
    rangeF =>
        <>(/\ pc = "done"
           /\ Len(out) = (IF startF <= endF THEN endF - startF + 1 ELSE 0)
           /\ \A k \in 1..Len(out) :
                 simpleOutF \/ StartsWith(out[k], FmtInt(RangeElem(k)) \o <<" ", "=", " ">>))

\* C6: in range mode no element outside [1,4000] gets a formatted result: its
\* conversion fails by the validator's rules.
C6_OutOfRangeElementFails ==
    rangeF => \A k \in 1..Len(gen.outVals) : isValArabic(RangeElem(k)) = "nil"

\* C7: every arabic value the program accepts, decodes or emits is in
\* [1,4000]: the parsed argument, the value decoded from a roman argument, and
\* each value converted in range mode.
C7_ValuesInRange ==
    /\ (theNumType = Arabic /\ pc \in {"arabicToRoman", "done"}) => InRange(convVal)
    /\ (theNumType = Roman /\ pc = "done") => InRange(r2a.val)
    /\ (caller = "genRange" /\ pc = "arabicToRoman") => InRange(a2r.val)

\* C8: for n in [1,4000] in either mode, every iteration of arabicToRoman's
\* loop, whatever the order the map is visited in, takes the largest key of
\* the selected table that is <= the accumulator, appends its symbol and
\* subtracts it; the accumulator strictly decreases and stays >= 0, the loop
\* is left only at zero, and the appended symbols' values sum to n.
C8_GreedyLoop ==
    /\ [][(caller = "conv" /\ pc = "arabicToRoman") =>
            IF a2r.current > 0
            THEN LET k == LargestKey(a2r.current, useMap)
                 IN  /\ pc' = "arabicToRoman"
                     /\ a2r'.current = a2r.current - k
                     /\ a2r'.outStr = a2r.outStr \o useMap[k]
                     /\ a2r'.current < a2r.current
                     /\ a2r'.current >= 0
            ELSE a2r.current = 0 /\ pc' = "romanToArabic"]_vars
    /\ []((caller = "conv" /\ pc \in {"arabicToRoman", "romanToArabic", "done"}) =>
            /\ InRange(a2r.val)
            /\ a2r.current \in 0..a2r.val
            /\ GreedyValue(a2r.outStr) + a2r.current = a2r.val)

C8_Witness ==
    /\ caller = "conv" /\ pc = "arabicToRoman" /\ addF
    /\ a2r.val = 3999
    /\ a2r.current = 0
    /\ Len(a2r.outStr) = 18

\* C9: for every non-empty string over {I,V,X,L,C,D,M}, romanToArabic never
\* raises the invalid-symbol error and returns the sum of the chunks met left
\* to right, a subtractive pair where there is one and else a single symbol;
\* "IIII" gives 4 and "VV" gives 10.
C9_GreedyDecode ==
    (caller = "main" /\ theNumType = Roman) =>
        /\ val # <<>>
        /\ pc \in {"romanToArabic", "done"}
        /\ err = "nil"
        /\ r2a.str = val
        /\ r2a.val = GreedyValue(SubSeq(val, 1, r2a.i))
        /\ pc = "done" =>
              /\ r2a.i = Len(val)
              /\ val = <<"I", "I", "I", "I">> => r2a.val = 4
              /\ val = <<"V", "V">> => r2a.val = 10

C9_Witness ==
    /\ caller = "main" /\ theNumType = Roman /\ pc = "done"
    /\ val = <<"I", "I", "I", "I">>
    /\ r2a.val = 4

\* C10: whenever arabicToRoman's accumulator is > 0, findLargest returns an
\* entry with a strictly positive value, in whatever order it visits the map,
\* so that every iteration makes progress.
C10_LoopProgress ==
    (pc = "arabicToRoman" /\ a2r.current > 0) =>
        \A ord \in MapOrders : findLargest(a2r.current, useMap, ord)[1] > 0

====
